---- MODULE Spec2Model ----
(***************************************************************************)
(* Model of src/extract_data.py: the Reddit collector.                     *)
(*                                                                         *)
(* main() reads the configuration, fetch_posts_from_subreddits() walks the *)
(* newest-first listing of every configured subreddit, turns the posts of  *)
(* the time window into flat records (with the numbered comment fields     *)
(* fetch_comments() selects), and main() sorts the records by score, keeps *)
(* the first post_limit and writes them to a CSV file.                     *)
(*                                                                         *)
(* Time is counted in days.  A submission's creation time is the value     *)
(* datetime.fromtimestamp() gives for it, the value the code compares.     *)
(* Sleeps are counted in tenths of a second.                               *)
(***************************************************************************)
EXTENDS Integers, Sequences, FiniteSets, TLC

VARIABLES
    pc,             \* position of the single thread of control
    subreddits,     \* config['subreddits']
    post_limit,     \* config['post_limit']
    comment_limit,  \* config['comment_limit']
    months,         \* config['months']
    all_posts,      \* the accumulation list of fetch_posts_from_subreddits / main
    end_date,       \* window end (datetime.now() when the walk starts)
    start_date,     \* window start
    idx,            \* index into subreddits of the forum being walked (1-based)
    submissions,    \* the listing the upstream API returns for the current forum
    pos,            \* number of items of submissions the iterator has yielded
    submission,     \* the submission being turned into a record
    forest,         \* the comment tree the upstream API holds for submission
    post_data,      \* the record under construction / last built
    top_posts,      \* all_posts[:post_limit] after the sort: the exported rows
    data_dir,       \* TRUE once Path("data").mkdir() has run
    csv_file,       \* the file to_csv has written, or NoFile
    trace           \* history of the operations performed, in order

vars == <<pc, subreddits, post_limit, comment_limit, months, all_posts,
          end_date, start_date, idx, submissions, pos, submission, forest,
          post_data, top_posts, data_dir, csv_file, trace>>

-----------------------------------------------------------------------------
(* Bounds of the model *)

MaxPosts == 3       \* longest listing the upstream API returns for one forum
MaxComments == 3    \* largest comment tree of a submission
MaxLimit == 2       \* largest post_limit / comment_limit of the configuration

(* Program constants *)

DaysPerMonth == 30      \* timedelta(days=30*months)
BodyLimit == 500        \* comment.body[:500]
PaceSleep == 1          \* time.sleep(0.1), in tenths of a second
RateLimitSleep == 600   \* time.sleep(60), in tenths of a second
RateLimitStatus == 429  \* e.response.status_code == 429

(* Input domains *)

Forums == {"a", "b"}
\* The configured lists of forums: one forum, two forums, one forum twice.
SubredditLists == {<<"a">>, <<"a", "b">>, <<"a", "a">>}
Now == {90}                         \* the clock when the walk starts
Months == {0, 1}
TimeStamps == {59, 60, 90, 91}      \* before / at the start, at / after the end
Scores == {1, 2}
StatusCodes == {429, 500}           \* status of a prawcore ResponseException
None == <<>>                        \* Python's None (author of a deleted comment)
NoFile == [written |-> FALSE, rows |-> <<>>]

Min(a, b) == IF a <= b THEN a ELSE b
Max(a, b) == IF a >= b THEN a ELSE b

SeqsUpTo(S, n) == UNION {[1..k -> S] : k \in 0..n}

-----------------------------------------------------------------------------
(* Strings as sequences of characters, as far as str.lower() needs them *)

UpperCase == <<"A", "D", "E", "M", "N", "O", "R", "T", "U">>
LowerCase == <<"a", "d", "e", "m", "n", "o", "r", "t", "u">>

LowerChar(c) ==
    IF \E i \in DOMAIN UpperCase : UpperCase[i] = c
    THEN LowerCase[CHOOSE i \in DOMAIN UpperCase : UpperCase[i] = c]
    ELSE c

Lower(s) == [i \in DOMAIN s |-> LowerChar(s[i])]

Str(x) == IF x = None THEN <<"N", "o", "n", "e">> ELSE x

automoderator == <<"a", "u", "t", "o", "m", "o", "d", "e", "r", "a", "t", "o", "r">>

AutoModerator == <<"A", "u", "t", "o", "M", "o", "d", "e", "r", "a", "t", "o", "r">>
AUTOMODERATOR == <<"A", "U", "T", "O", "M", "O", "D", "E", "R", "A", "T", "O", "R">>
alice == <<"a", "l", "i", "c", "e">>

\* comment.author: a redditor's name, or None for a deleted account
Authors == {AutoModerator, AUTOMODERATOR, automoderator, alice, None}

Take(s, n) == SubSeq(s, 1, Min(Len(s), n))

-----------------------------------------------------------------------------
(* The upstream API *)

\* The submissions of forum f.  A submission's id determines its forum and
\* its creation time, so ids are unique across the whole site.
SubmissionsOf(f) == {[id |-> <<f, t>>, created_utc |-> t] : t \in TimeStamps}

\* The listings subreddit.new() may return: each submission at most once,
\* in whatever order the API gives them.
Listings(f) ==
    {l \in SeqsUpTo(SubmissionsOf(f), MaxPosts) :
        \A i, j \in DOMAIN l : i # j => l[i] # l[j]}

\* The comment trees of a submission, flattened by comments.list(); the body
\* of the k-th comment is its own text, different from every other comment's.
Comments == [author : Authors, score : Scores]
Forests(n) ==
    {[k \in DOMAIN f |-> [author |-> f[k].author, score |-> f[k].score,
                          body |-> <<"comment", k>>]] :
        f \in SeqsUpTo(Comments, n)}

Exceptions ==
    {[type |-> "ResponseException", status_code |-> s] : s \in StatusCodes}
        \cup {[type |-> "Exception", status_code |-> 0]}

-----------------------------------------------------------------------------
(* Pure functions *)

\* sorted(..., key=score, reverse=True) and list.sort(key=score, reverse=True):
\* descending by score, elements with equal scores keep their order.
RECURSIVE SortByScoreDesc(_)
SortByScoreDesc(s) ==
    IF s = <<>> THEN <<>>
    ELSE LET front == SortByScoreDesc(SubSeq(s, 1, Len(s) - 1))
             x == s[Len(s)]
             k == Cardinality({i \in DOMAIN front : front[i].score >= x.score})
         IN  SubSeq(front, 1, k) \o <<x>> \o SubSeq(front, k + 1, Len(front))

\* Faulty variant of the loop: the author test without lower(), which lets
\* "AutoModerator" through.
RECURSIVE SelectComments_CaseSensitive(_, _, _)
SelectComments_CaseSensitive(sorted_comments, comments, limit) ==
    IF sorted_comments = <<>> THEN comments
    ELSE LET comment == Head(sorted_comments) IN
         IF Str(comment.author) # automoderator
         THEN LET appended == Append(comments,
                      [comment_body |-> Take(comment.body, BodyLimit),
                       comment_score |-> comment.score])
              IN  IF Len(appended) >= limit THEN appended
                  ELSE SelectComments_CaseSensitive(Tail(sorted_comments), appended, limit)
         ELSE SelectComments_CaseSensitive(Tail(sorted_comments), comments, limit)

\* The loop of fetch_comments over the sorted comments.
RECURSIVE SelectComments(_, _, _)
SelectComments(sorted_comments, comments, limit) ==
    IF sorted_comments = <<>> THEN comments
    ELSE LET comment == Head(sorted_comments) IN
         IF Lower(Str(comment.author)) # automoderator
         THEN LET appended == Append(comments,
                      [comment_body |-> Take(comment.body, BodyLimit),
                       comment_score |-> comment.score])
              IN  IF Len(appended) >= limit THEN appended
                  ELSE SelectComments(Tail(sorted_comments), appended, limit)
         ELSE SelectComments(Tail(sorted_comments), comments, limit)

fetch_comments(tree, limit) == SelectComments(SortByScoreDesc(tree), <<>>, limit)

\* post_data[f'{key}_{i+1}'] = value: the numbered fields, keyed by <<key, i>>.
CommentKeys == {"comment_body", "comment_score"}
NumberedFields(comments) ==
    [f \in CommentKeys \X (1..Len(comments)) |-> comments[f[2]][f[1]]]

PostData(subreddit, s, score, comments) ==
    [subreddit |-> subreddit,
     post_id |-> s.id,
     created_utc |-> s.created_utc,
     score |-> score,
     numbered |-> NumberedFields(comments)]

\* Python's s[:n]
Slice(s, n) ==
    IF n >= 0 THEN SubSeq(s, 1, Min(n, Len(s)))
    ELSE SubSeq(s, 1, Max(0, Len(s) + n))

Event(op, entry, arg) == [op |-> op, entry |-> entry, arg |-> arg]

-----------------------------------------------------------------------------
(* Initial states *)

NoSubmission == [id |-> <<"", 0>>, created_utc |-> 0]
NoPostData == PostData("", NoSubmission, 0, <<>>)

\* The walk is explored on one comment tree (a deleted author's comment and a
\* higher-scored AutoModerator comment) and one comment limit; SpecComments
\* explores the selection on every tree of Forests(MaxComments) and every limit.
WalkForests ==
    {<< [author |-> None, score |-> 1, body |-> <<"comment", 1>>],
        [author |-> AutoModerator, score |-> 2, body |-> <<"comment", 2>>] >>}
WalkCommentLimits == {MaxLimit}

\* After the module is imported: the configuration is loaded, nothing fetched.
Init ==
    /\ pc = "main"
    /\ subreddits \in SubredditLists
    /\ post_limit \in 0..MaxLimit
    /\ comment_limit \in WalkCommentLimits
    /\ months \in Months
    /\ all_posts = <<>>
    /\ end_date = 0
    /\ start_date = 0
    /\ idx = 0
    /\ submissions = <<>>
    /\ pos = 0
    /\ submission = NoSubmission
    /\ forest = <<>>
    /\ post_data = NoPostData
    /\ top_posts = <<>>
    /\ data_dir = FALSE
    /\ csv_file = NoFile
    /\ trace = <<>>

-----------------------------------------------------------------------------
(* fetch_posts_from_subreddits *)

\* main calls fetch_posts_from_subreddits, which fixes the window.
FetchStart ==
    /\ pc = "main"
    /\ \E now \in Now :
        /\ end_date' = now
        /\ start_date' = now - DaysPerMonth * months
    /\ all_posts' = <<>>
    /\ idx' = 1
    /\ pc' = "for_subreddit"
    /\ UNCHANGED <<subreddits, post_limit, comment_limit, months, submissions,
                   pos, submission, forest, post_data, top_posts, data_dir,
                   csv_file, trace>>

\* for subreddit in subreddits: ... subreddit_instance.new(limit=None)
RequestListing ==
    /\ pc = "for_subreddit"
    /\ idx <= Len(subreddits)
    /\ \E l \in Listings(subreddits[idx]) : submissions' = l
    /\ pos' = 0
    /\ trace' = Append(trace, Event("request", idx, subreddits[idx]))
    /\ pc' = "for_submission"
    /\ UNCHANGED <<subreddits, post_limit, comment_limit, months, all_posts,
                   end_date, start_date, idx, submission, forest, post_data,
                   top_posts, data_dir, csv_file>>

\* Faulty variant of the date tests: the window start excluded
\* (submission_date <= start_date breaks).
NextSubmission_StartExclusive ==
    /\ pc = "for_submission"
    /\ IF pos = Len(submissions)
       THEN /\ pc' = "fetched"
            /\ UNCHANGED <<pos, submission, forest>>
       ELSE LET s == submissions[pos + 1] IN
            /\ pos' = pos + 1
            /\ IF s.created_utc <= start_date
               THEN /\ pc' = "fetched"
                    /\ UNCHANGED <<submission, forest>>
               ELSE IF s.created_utc > end_date
               THEN /\ pc' = "for_submission"
                    /\ UNCHANGED <<submission, forest>>
               ELSE /\ pc' = "build"
                    /\ submission' = s
                    /\ forest' \in WalkForests
    /\ UNCHANGED <<subreddits, post_limit, comment_limit, months, all_posts,
                   end_date, start_date, idx, submissions, post_data,
                   top_posts, data_dir, csv_file, trace>>

\* Faulty variant of the date tests: a post older than the window is skipped
\* (continue) instead of ending the walk (break).
NextSubmission_SkipOld ==
    /\ pc = "for_submission"
    /\ IF pos = Len(submissions)
       THEN /\ pc' = "fetched"
            /\ UNCHANGED <<pos, submission, forest>>
       ELSE LET s == submissions[pos + 1] IN
            /\ pos' = pos + 1
            /\ IF s.created_utc < start_date \/ s.created_utc > end_date
               THEN /\ pc' = "for_submission"
                    /\ UNCHANGED <<submission, forest>>
               ELSE /\ pc' = "build"
                    /\ submission' = s
                    /\ forest' \in WalkForests
    /\ UNCHANGED <<subreddits, post_limit, comment_limit, months, all_posts,
                   end_date, start_date, idx, submissions, post_data,
                   top_posts, data_dir, csv_file, trace>>

\* for submission in submissions: the two date tests.
NextSubmission ==
    /\ pc = "for_submission"
    /\ IF pos = Len(submissions)
       THEN /\ pc' = "fetched"
            /\ UNCHANGED <<pos, submission, forest>>
       ELSE LET s == submissions[pos + 1] IN
            /\ pos' = pos + 1
            /\ IF s.created_utc < start_date
               THEN /\ pc' = "fetched"          \* break
                    /\ UNCHANGED <<submission, forest>>
               ELSE IF s.created_utc > end_date
               THEN /\ pc' = "for_submission"   \* continue
                    /\ UNCHANGED <<submission, forest>>
               ELSE /\ pc' = "build"
                    /\ submission' = s
                    /\ forest' \in WalkForests
    /\ UNCHANGED <<subreddits, post_limit, comment_limit, months, all_posts,
                   end_date, start_date, idx, submissions, post_data,
                   top_posts, data_dir, csv_file, trace>>

\* post_data = {...}; fetch_comments; the numbered fields; append; sleep(0.1)
BuildRecord ==
    /\ pc = "build"
    /\ \E score \in Scores :
        /\ post_data' = PostData(subreddits[idx], submission, score,
                                 fetch_comments(forest, comment_limit))
        /\ all_posts' = Append(all_posts, post_data')
    /\ trace' = trace \o << Event("fetch_comments", idx, submission.id),
                            Event("append", idx, submission.id),
                            Event("sleep", idx, PaceSleep) >>
    /\ pc' = "for_submission"
    /\ UNCHANGED <<subreddits, post_limit, comment_limit, months, end_date,
                   start_date, idx, submissions, pos, submission, forest,
                   top_posts, data_dir, csv_file>>

\* logging.info(f"Fetched posts from r/{subreddit}"), then the next forum.
LogFetched ==
    /\ pc = "fetched"
    /\ trace' = Append(trace, Event("log", idx, "info"))
    /\ idx' = idx + 1
    /\ submissions' = <<>>
    /\ pos' = 0
    /\ pc' = "for_subreddit"
    /\ UNCHANGED <<subreddits, post_limit, comment_limit, months, all_posts,
                   end_date, start_date, submission, forest, post_data,
                   top_posts, data_dir, csv_file>>

\* Faulty variant of the except clauses: no sleep after a 429.
Handler_NoSleep(e) ==
    IF e.type = "ResponseException" /\ e.status_code = RateLimitStatus
    THEN << Event("log", idx, "warning") >>
    ELSE << Event("log", idx, "error") >>

\* What the two except clauses do with exception e.
Handler(e) ==
    IF e.type = "ResponseException"
    THEN IF e.status_code = RateLimitStatus
         THEN << Event("log", idx, "warning"), Event("sleep", idx, RateLimitSleep) >>
         ELSE << Event("log", idx, "error") >>
    ELSE << Event("log", idx, "error") >>

\* Faulty variant of the failure handling: the try around the loop over the
\* forums instead of inside it, so that a failure ends the whole walk.
HandleException_AbortsRun ==
    /\ pc \in {"for_submission", "build"}
    /\ \E e \in Exceptions :
        trace' = trace
                 \o (IF pc = "build"
                     THEN << Event("fetch_comments", idx, submission.id) >>
                     ELSE << >>)
                 \o << Event("raise", idx, e) >>
                 \o Handler(e)
    /\ idx' = Len(subreddits) + 1
    /\ submissions' = <<>>
    /\ pos' = 0
    /\ pc' = "for_subreddit"
    /\ UNCHANGED <<subreddits, post_limit, comment_limit, months, all_posts,
                   end_date, start_date, submission, forest, post_data,
                   top_posts, data_dir, csv_file>>

\* Faulty variant of the failure handling: the record is appended before its
\* comments are fetched, so that a failure of fetch_comments leaves a record
\* without comment fields in the list.
HandleException_PartialRecord ==
    /\ pc \in {"for_submission", "build"}
    /\ \E e \in Exceptions :
        trace' = trace
                 \o (IF pc = "build"
                     THEN << Event("fetch_comments", idx, submission.id) >>
                     ELSE << >>)
                 \o << Event("raise", idx, e) >>
                 \o Handler(e)
    /\ all_posts' = IF pc = "build"
                    THEN Append(all_posts, PostData(subreddits[idx], submission, 1, <<>>))
                    ELSE all_posts
    /\ idx' = idx + 1
    /\ submissions' = <<>>
    /\ pos' = 0
    /\ pc' = "for_subreddit"
    /\ UNCHANGED <<subreddits, post_limit, comment_limit, months,
                   end_date, start_date, submission, forest, post_data,
                   top_posts, data_dir, csv_file>>

\* The listing iterator or fetch_comments raises; the except clauses of the
\* forum's try handle it and the outer loop goes on with the next forum.
HandleException ==
    /\ pc \in {"for_submission", "build"}
    /\ \E e \in Exceptions :
        trace' = trace
                 \o (IF pc = "build"
                     THEN << Event("fetch_comments", idx, submission.id) >>
                     ELSE << >>)
                 \o << Event("raise", idx, e) >>
                 \o Handler(e)
    /\ idx' = idx + 1
    /\ submissions' = <<>>
    /\ pos' = 0
    /\ pc' = "for_subreddit"
    /\ UNCHANGED <<subreddits, post_limit, comment_limit, months, all_posts,
                   end_date, start_date, submission, forest, post_data,
                   top_posts, data_dir, csv_file>>

\* return all_posts
ReturnAllPosts ==
    /\ pc = "for_subreddit"
    /\ idx > Len(subreddits)
    /\ pc' = "returned"
    /\ UNCHANGED <<subreddits, post_limit, comment_limit, months, all_posts,
                   end_date, start_date, idx, submissions, pos, submission,
                   forest, post_data, top_posts, data_dir, csv_file, trace>>

-----------------------------------------------------------------------------
(* main, after the fetch *)

\* Faulty variant of the empty case: the data directory created before the
\* test for collected records.
MainNoData_Mkdir ==
    /\ pc = "returned"
    /\ all_posts = <<>>
    /\ data_dir' = TRUE
    /\ trace' = Append(trace, Event("log", 0, "warning"))
    /\ pc' = "done"
    /\ UNCHANGED <<subreddits, post_limit, comment_limit, months, all_posts,
                   end_date, start_date, idx, submissions, pos, submission,
                   forest, post_data, top_posts, csv_file>>

\* if not all_posts: log and return
MainNoData ==
    /\ pc = "returned"
    /\ all_posts = <<>>
    /\ trace' = Append(trace, Event("log", 0, "warning"))
    /\ pc' = "done"
    /\ UNCHANGED <<subreddits, post_limit, comment_limit, months, all_posts,
                   end_date, start_date, idx, submissions, pos, submission,
                   forest, post_data, top_posts, data_dir, csv_file>>

\* Faulty variant of the export: the slice taken before the sort.
MainExport_SliceFirst ==
    /\ pc = "returned"
    /\ all_posts # <<>>
    /\ all_posts' = SortByScoreDesc(all_posts)
    /\ top_posts' = SortByScoreDesc(Slice(all_posts, post_limit))
    /\ data_dir' = TRUE
    /\ \E written \in BOOLEAN :
        /\ csv_file' = IF written THEN [written |-> TRUE, rows |-> top_posts'] ELSE NoFile
        /\ trace' = Append(trace, Event("log", 0, IF written THEN "info" ELSE "error"))
    /\ pc' = "done"
    /\ UNCHANGED <<subreddits, post_limit, comment_limit, months, end_date,
                   start_date, idx, submissions, pos, submission, forest,
                   post_data>>

\* sort, slice, mkdir, to_csv (which may fail with an I/O error)
MainExport ==
    /\ pc = "returned"
    /\ all_posts # <<>>
    /\ all_posts' = SortByScoreDesc(all_posts)
    /\ top_posts' = Slice(all_posts', post_limit)
    /\ data_dir' = TRUE
    /\ \E written \in BOOLEAN :
        /\ csv_file' = IF written THEN [written |-> TRUE, rows |-> top_posts'] ELSE NoFile
        /\ trace' = Append(trace, Event("log", 0, IF written THEN "info" ELSE "error"))
    /\ pc' = "done"
    /\ UNCHANGED <<subreddits, post_limit, comment_limit, months, end_date,
                   start_date, idx, submissions, pos, submission, forest,
                   post_data>>

Next ==
    \/ FetchStart
    \/ RequestListing
    \/ NextSubmission
    \/ BuildRecord
    \/ LogFetched
    \/ HandleException
    \/ ReturnAllPosts
    \/ MainNoData
    \/ MainExport

Spec == Init /\ [][Next]_vars

-----------------------------------------------------------------------------
(* The comment selection on its own: one submission of the window, whose    *)
(* comment tree and comment limit are drawn from all of their domains, is   *)
(* turned into a record.                                                     *)

InitComments ==
    /\ pc = "build"
    /\ subreddits = <<"a">>
    /\ post_limit \in {MaxLimit}
    /\ comment_limit \in 0..MaxLimit
    /\ months \in {1}
    /\ all_posts = <<>>
    /\ end_date \in Now
    /\ start_date = end_date - DaysPerMonth * months
    /\ idx = 1
    /\ submissions \in {l \in Listings("a") : Len(l) = 1 /\ l[1].created_utc = end_date}
    /\ pos = 1
    /\ submission = submissions[1]
    /\ forest \in Forests(MaxComments)
    /\ post_data = NoPostData
    /\ top_posts = <<>>
    /\ data_dir = FALSE
    /\ csv_file = NoFile
    /\ trace = <<Event("request", 1, "a")>>

NextComments == BuildRecord

SpecComments == InitComments /\ [][NextComments]_vars

-----------------------------------------------------------------------------
(* Vocabulary of the properties *)

\* The window the properties speak of: end is the time the walk started,
\* start is 30*months days before it.
WindowEnd == CHOOSE now \in Now : TRUE
WindowStart == WindowEnd - 30 * months
InWindow(t) == WindowStart <= t /\ t <= WindowEnd

NewestFirst(l) ==
    \A i, j \in DOMAIN l : i < j => l[i].created_utc >= l[j].created_utc

\* Positions of the trace where forum entry i performed operation op.
At(op, i) == {k \in DOMAIN trace : trace[k].op = op /\ trace[k].entry = i}
Raises == {k \in DOMAIN trace : trace[k].op = "raise"}
Requests == {k \in DOMAIN trace : trace[k].op = "request"}

\* The walk of entry i appended a record for / fetched the comments of post id.
Appended(i, id) == \E k \in At("append", i) : trace[k].arg = id
CommentsFetched(i, id) == \E k \in At("fetch_comments", i) : trace[k].arg = id

IsAppend(e) == e.op = "append"
AppendEvents == SelectSeq(trace, IsAppend)

\* Before the sort, all_posts holds exactly the appended records, in order.
AccumulatedInOrder ==
    /\ Len(all_posts) = Len(AppendEvents)
    /\ \A n \in DOMAIN all_posts :
        /\ all_posts[n].post_id = AppendEvents[n].arg
        /\ all_posts[n].subreddit = subreddits[AppendEvents[n].entry]

\* A post older than the window sits before position m of the current listing.
OldBefore(m) == \E k \in 1..(m - 1) : submissions[k].created_utc < WindowStart

-----------------------------------------------------------------------------
(* C1: after the listing of a forum was walked without an exception, and    *)
(* provided the listing is newest-first, a post of the listing has a record  *)
(* in the accumulated list if and only if start <= T <= end, both bounds     *)
(* included.                                                                 *)
C1_WindowInclusion ==
    (pc = "fetched" /\ NewestFirst(submissions)) =>
        /\ AccumulatedInOrder
        /\ \A m \in DOMAIN submissions :
            Appended(idx, submissions[m].id) <=> InWindow(submissions[m].created_utc)

\* A newest-first listing with a post at the end of the window, a post at its
\* start and an older post has been walked.
C1_Witness ==
    /\ pc = "fetched"
    /\ NewestFirst(submissions)
    /\ Len(submissions) = 3
    /\ submissions[1].created_utc = WindowEnd
    /\ submissions[2].created_utc = WindowStart
    /\ submissions[3].created_utc < WindowStart
    /\ Appended(idx, submissions[1].id)
    /\ Appended(idx, submissions[2].id)

(* C2: the walk stops at the first post older than the window: the iterator *)
(* never yields a post behind it, no post behind it gets a record or has    *)
(* its comments fetched, whatever its timestamp, and the walk goes on to    *)
(* the log line and the next forum; a post newer than the window end is     *)
(* skipped, and the posts behind it are still walked.                       *)
C2_StopAtFirstOld ==
    /\ pc \in {"for_submission", "build", "fetched"} =>
        /\ ~OldBefore(pos)
        /\ (OldBefore(pos + 1) => pc = "fetched")
        /\ \A m \in DOMAIN submissions :
            OldBefore(m) =>
                /\ ~Appended(idx, submissions[m].id)
                /\ ~CommentsFetched(idx, submissions[m].id)
    /\ pc = "fetched" =>
        \A m \in DOMAIN submissions :
            /\ Appended(idx, submissions[m].id) <=>
                (InWindow(submissions[m].created_utc) /\ ~OldBefore(m))
            /\ CommentsFetched(idx, submissions[m].id) <=> Appended(idx, submissions[m].id)

\* A listing that is not newest-first: a post newer than the window end, then
\* a post of the window (recorded), then an old post; or an old post followed
\* by a post of the window (not recorded).
C2_Witness ==
    /\ pc = "fetched"
    /\ Len(submissions) = 3
    /\ \/ /\ submissions[1].created_utc > WindowEnd
          /\ InWindow(submissions[2].created_utc)
          /\ Appended(idx, submissions[2].id)
          /\ submissions[3].created_utc < WindowStart
       \/ /\ InWindow(submissions[1].created_utc)
          /\ submissions[2].created_utc < WindowStart
          /\ InWindow(submissions[3].created_utc)
          /\ ~Appended(idx, submissions[3].id)
    /\ idx < Len(subreddits)

(* C3: a failure of one forum (429, another status, any other exception),   *)
(* wherever in its pagination, is caught: the run goes on behind the failed *)
(* forum, and when fetch_posts_from_subreddits has returned every forum     *)
(* listed after the failed one has been requested and walked.               *)
C3_FailureIsolated ==
    \A k \in Raises :
        /\ idx > trace[k].entry
        /\ pc \in {"returned", "done"} =>
            \A j \in (trace[k].entry + 1)..Len(subreddits) :
                /\ \E n \in At("request", j) : n > k
                /\ \E n \in DOMAIN trace :
                    /\ n > k
                    /\ trace[n].entry = j
                    /\ \/ trace[n].op = "raise"
                       \/ trace[n].op = "log" /\ trace[n].arg = "info"

\* The first of two forums failed with a 429 and the second was walked to its
\* end, after which the fetch returned.
C3_Witness ==
    /\ pc = "returned"
    /\ Len(subreddits) = 2
    /\ \E k \in Raises :
        /\ trace[k].entry = 1
        /\ trace[k].arg.type = "ResponseException"
        /\ trace[k].arg.status_code = 429
    /\ \E n \in At("log", 2) : trace[n].arg = "info"
    /\ \E n \in At("append", 2) : TRUE

(* C4: when records were collected, the exported rows are the first         *)
(* min(total collected, post_limit) of the collected records ranked by      *)
(* score: their scores are non-increasing, they are records of the          *)
(* collection, each taken once, and no record left out has a higher score   *)
(* than an exported one.                                                     *)
Count(s, x) == Cardinality({n \in DOMAIN s : s[n] = x})

C4_TopN ==
    pc = "done" =>
        LET collected == AppendEvents
            ids == [n \in DOMAIN all_posts |-> all_posts[n].post_id]
        IN  Len(collected) > 0 =>
            \* the sorted list still holds the collected records, each once
            /\ Len(all_posts) = Len(collected)
            /\ \A k \in DOMAIN collected :
                Count(ids, collected[k].arg)
                    = Cardinality({n \in DOMAIN collected : collected[n].arg = collected[k].arg})
            /\ Len(top_posts) = Min(Len(collected), post_limit)
            /\ \A i \in 1..(Len(top_posts) - 1) :
                top_posts[i].score >= top_posts[i + 1].score
            \* the exported rows are records of the collection, each taken once
            /\ \A i \in DOMAIN top_posts :
                Count(top_posts, top_posts[i]) <= Count(all_posts, top_posts[i])
            \* a record left out scores no more than any exported row
            /\ \A n \in DOMAIN all_posts :
                Count(all_posts, all_posts[n]) > Count(top_posts, all_posts[n]) =>
                    \A i \in DOMAIN top_posts : all_posts[n].score <= top_posts[i].score
            /\ csv_file.written => csv_file.rows = top_posts

\* Records of two forums with different scores were collected, more than
\* post_limit of them, and the file was written; the first record collected
\* is not the best one.
C4_Witness ==
    /\ pc = "done"
    /\ csv_file.written
    /\ Len(all_posts) >= 3
    /\ Len(top_posts) = 2
    /\ top_posts[1].subreddit # top_posts[2].subreddit
    /\ top_posts[1].score > top_posts[2].score
    /\ \E n \in DOMAIN all_posts : all_posts[n].score < top_posts[1].score
    /\ all_posts[1].post_id # AppendEvents[1].arg

-----------------------------------------------------------------------------
(* Comment selection *)

\* The spellings of the automated moderator's name among Authors.
AutomodSpellings == {AutoModerator, AUTOMODERATOR, automoderator}

\* The indices i for which post_data has a field comment_body_i / comment_score_i.
Indices(key) == {f[2] : f \in {g \in DOMAIN post_data.numbered : g[1] = key}}

Built == pc = "for_submission" /\ post_data # NoPostData

\* E: the comments of the tree not authored by the automated moderator.
Eligible == {k \in DOMAIN forest : forest[k].author \notin AutomodSpellings}

(* C5: the numbered comment fields of a record come, body and score         *)
(* together, from a comment of the submission's tree that the automated     *)
(* moderator (in any spelling) did not write, and the scores are            *)
(* non-increasing in the index.                                             *)
C5_NoAutomodSortedScores ==
    Built =>
        /\ Indices("comment_body") = Indices("comment_score")
        /\ \A i \in Indices("comment_body") :
            \E k \in Eligible :
                /\ forest[k].body = post_data.numbered[<<"comment_body", i>>]
                /\ forest[k].score = post_data.numbered[<<"comment_score", i>>]
        /\ \A i, j \in Indices("comment_score") :
            i < j => post_data.numbered[<<"comment_score", i>>]
                        >= post_data.numbered[<<"comment_score", j>>]

\* The best-scored comment is AutoModerator's (mixed case); two comments of
\* different scores were selected behind it.
C5_Witness ==
    /\ Built
    /\ \E k \in DOMAIN forest :
        /\ forest[k].author = AutoModerator
        /\ \A n \in DOMAIN forest : forest[k].score >= forest[n].score
    /\ Indices("comment_score") = {1, 2}
    /\ post_data.numbered[<<"comment_score", 1>>] > post_data.numbered[<<"comment_score", 2>>]
    /\ post_data.numbered[<<"comment_body", 1>>] = forest[3].body

(* C6: fetch_comments returns exactly min(K, E) entries for every limit     *)
(* K >= 0 (0 included), E being the number of comments the automated        *)
(* moderator did not write: the numbered fields of the record have the      *)
(* indices 1..min(K, E), without a gap and none above comment_limit.        *)
C6_ExactlyMinKE ==
    Built =>
        /\ Indices("comment_body") = 1..Min(comment_limit, Cardinality(Eligible))
        /\ Indices("comment_score") = 1..Min(comment_limit, Cardinality(Eligible))

-----------------------------------------------------------------------------
(* C7: when no record was collected, main ends without creating the data    *)
(* directory and without writing a file; the directory and the file exist   *)
(* only in runs that collected a record.                                    *)
C7_NoDataNoFile ==
    /\ (pc \in {"returned", "done"} /\ Len(AppendEvents) = 0) =>
        (~data_dir /\ csv_file = NoFile /\ top_posts = <<>>)
    /\ (data_dir \/ csv_file # NoFile) => (pc = "done" /\ Len(AppendEvents) > 0)

\* The run is over with nothing collected: one forum failed before its first
\* post of the window, the other had only posts outside the window.
C7_Witness ==
    /\ pc = "done"
    /\ all_posts = <<>>
    /\ ~data_dir
    /\ csv_file = NoFile
    /\ Len(subreddits) = 2
    /\ \E k \in Raises : TRUE
    /\ \E n \in DOMAIN trace : trace[n].op = "log" /\ trace[n].arg = "info"

(* C8: no two records of the list fetch_posts_from_subreddits returns have  *)
(* the same post_id, whatever the configured list of forums and whatever    *)
(* the upstream returns.                                                    *)
C8_UniquePostIds ==
    \A i, j \in DOMAIN all_posts : i # j => all_posts[i].post_id # all_posts[j].post_id

(* C9: a 429 is followed by the 60-second sleep, before anything else       *)
(* happens; no other failure is followed by a sleep; the 60-second sleep    *)
(* occurs nowhere else; the failed entry is not requested again; and the    *)
(* entries of the configured list are requested at most once each, in       *)
(* configuration order, each one finished or abandoned before the next one  *)
(* is started.                                                              *)
IsRateLimit(e) == e.type = "ResponseException" /\ e.status_code = 429

RaisedNow == Len(trace') > Len(trace) /\ \E k \in DOMAIN trace' : k > Len(trace) /\ trace'[k].op = "raise"

C10_FailureKeepsRecords ==
    /\ [][RaisedNow => all_posts' = all_posts]_vars
    /\ [](\A k \in Raises :
            (k > 1 /\ trace[k - 1].op = "fetch_comments") =>
                /\ trace[k - 1].entry = trace[k].entry
                /\ ~Appended(trace[k].entry, trace[k - 1].arg))
    /\ [](pc # "done" => AccumulatedInOrder)

\* The second forum failed while the comments of its second post were being
\* fetched; the records of the first forum and of the second forum's first
\* post are in the list.
C10_Witness ==
    /\ pc = "returned"
    /\ \E k \in Raises :
        /\ trace[k].entry = 2
        /\ trace[k - 1].op = "fetch_comments"
        /\ \E n \in At("append", 2) : n < k
    /\ \E n \in At("append", 1) : TRUE
    /\ Len(all_posts) >= 2

====
